---- MODULE Spec2Model ----
(***************************************************************************)
(* Slack voice-memo converter (Google Apps Script): the webhook entry      *)
(* point doPost, the event handler, the duplicate-event cache, the         *)
(* transcription handler with its timer-driven retry chain, and the Slack  *)
(* client wrappers, as a state machine.                                    *)
(*                                                                         *)
(* Time is counted in ticks of one retry delay (10 s): the duplicate       *)
(* marker lives 30 s = 3 ticks, a recheck trigger is due after 1 tick.     *)
(* Texts are sequences of characters over a two-letter alphabet (a blank   *)
(* and a letter); each fixed message of the program is a one-token text.   *)
(***************************************************************************)
EXTENDS Integers, Sequences, FiniteSets, TLC

(* ------------------------------ bounds --------------------------------- *)
\* longest transcript text Slack returns in the model
MaxLen == 2
\* most recheck triggers outstanding at once
MaxTriggers == 2

(* ------------------------- program constants --------------------------- *)
\* cache.put(cacheKey, 'processed', 30)
DEDUP_TTL_SECONDS == 30
\* .after(10000)
RETRY_DELAY_MS == 10000
\* maxRetries: 6
MAX_RETRIES == 6

TickSeconds == RETRY_DELAY_MS \div 1000
TtlTicks == DEDUP_TTL_SECONDS \div TickSeconds
RetryTicks == (RETRY_DELAY_MS \div 1000) \div TickSeconds

(* ------------------------------- texts --------------------------------- *)
Chars == {" ", "a"}
Texts == UNION {[1..n -> Chars] : n \in 0..MaxLen}

\* let transcription = '文字起こしできる内容がありませんでした。'
DEFAULT_TRANSCRIPTION == <<"[nothing-to-transcribe]">>
\* text.trim() || ":speech_balloon::arrow_right: :memo: ... :x:"
EMPTY_TEXT_FALLBACK == <<"[speech_balloon-memo-x]">>
\* transcription += " (続きがあります)"
MORE_MARKER == <<" ", "(more)">>
PROCESSING_MESSAGE == <<"[transcription-in-progress]">>
FAILED_MESSAGE == <<"[transcription-failed]">>
UNKNOWN_STATUS_MESSAGE == <<"[status-unknown]">>
NO_TRANSCRIPTION_MESSAGE == <<"[no-transcription-info]">>

RECURSIVE trimStart(_)
trimStart(s) == IF s # <<>> /\ Head(s) = " " THEN trimStart(Tail(s)) ELSE s

RECURSIVE trimEnd(_)
trimEnd(s) ==
  IF s # <<>> /\ s[Len(s)] = " " THEN trimEnd(SubSeq(s, 1, Len(s) - 1)) ELSE s

\* String.prototype.trim
trim(s) == trimEnd(trimStart(s))

\* a JavaScript string is truthy when it is not empty
Truthy(s) == s # <<>>

(* ------------------------------- files --------------------------------- *)
\* F1, F2: voice memos; F3: an mp3 served with a generic mimetype;
\* F4: a text file
Files == {"F1", "F2", "F3", "F4"}

\* strings of the file metadata, as sequences of characters
M4A == <<"m", "4", "a">>
MP4 == <<"m", "p", "4">>
TXT == <<"t", "x", "t">>
AUDIO_ == <<"a", "u", "d", "i", "o", "/">>
VIDEO_ == <<"v", "i", "d", "e", "o", "/">>
AUDIO_MP4 == AUDIO_ \o MP4
VIDEO_MP4 == VIDEO_ \o MP4
OCTET_STREAM ==
  <<"a", "p", "p", "l", "i", "c", "a", "t", "i", "o", "n", "/",
    "o", "c", "t", "e", "t", "-", "s", "t", "r", "e", "a", "m">>
TEXT_PLAIN == <<"t", "e", "x", "t", "/", "p", "l", "a", "i", "n">>

FileMeta(f) ==
  CASE f = "F1" -> [filetype |-> M4A, mimetype |-> AUDIO_MP4]
    [] f = "F2" -> [filetype |-> MP4, mimetype |-> VIDEO_MP4]
    [] f = "F3" -> [filetype |-> <<"M", "P", "3">>, mimetype |-> OCTET_STREAM]
    [] OTHER    -> [filetype |-> TXT, mimetype |-> TEXT_PLAIN]

UpperCase ==
  <<"A", "B", "C", "D", "E", "F", "G", "H", "I", "J", "K", "L", "M",
    "N", "O", "P", "Q", "R", "S", "T", "U", "V", "W", "X", "Y", "Z">>
LowerCase ==
  <<"a", "b", "c", "d", "e", "f", "g", "h", "i", "j", "k", "l", "m",
    "n", "o", "p", "q", "r", "s", "t", "u", "v", "w", "x", "y", "z">>

\* the i flag of the regular expression: letters compare by their lower case
toLowerCase(s) ==
  [i \in DOMAIN s |->
     IF \E j \in DOMAIN UpperCase : UpperCase[j] = s[i]
     THEN LowerCase[CHOOSE j \in DOMAIN UpperCase : UpperCase[j] = s[i]]
     ELSE s[i]]

startsWith(s, p) == Len(s) >= Len(p) /\ SubSeq(s, 1, Len(p)) = p

endsWith(s, p) ==
  Len(s) >= Len(p) /\ SubSeq(s, Len(s) - Len(p) + 1, Len(s)) = p

validFileTypes_caseSensitive(filetype) ==
  filetype \in {M4A, <<"m", "p", "3">>, MP4, <<"w", "a", "v">>,
                <<"m", "p", "e", "g">>, <<"o", "g", "g">>, <<"a", "a", "c">>}

\* /^(m4a|mp3|mp4|wav|mpeg|ogg|aac)$/i .test(filetype)
validFileTypes(filetype) ==
  toLowerCase(filetype) \in
    {M4A, <<"m", "p", "3">>, MP4, <<"w", "a", "v">>, <<"m", "p", "e", "g">>,
     <<"o", "g", "g">>, <<"a", "a", "c">>}

MimeIsAudio_audioOnly(m) == startsWith(m, AUDIO_)

\* /^audio\/|^video\/|.*mp4$/ .test(mimetype)
MimeIsAudio(m) ==
  startsWith(m, AUDIO_) \/ startsWith(m, VIDEO_) \/ endsWith(m, MP4)

isAudioFile(filetype, mimetype) ==
  IF ~Truthy(filetype) /\ ~Truthy(mimetype) THEN FALSE
  ELSE IF Truthy(filetype) /\ validFileTypes(filetype) THEN TRUE
  ELSE IF Truthy(mimetype) /\ MimeIsAudio(mimetype) THEN TRUE
  ELSE FALSE

VoiceFiles == {f \in Files : MimeIsAudio(FileMeta(f).mimetype)}

\* texts Slack returns in the system specification: empty, blank, a word
SysTexts == {<<>>, <<" ">>, <<"a">>}

\* statuses of a file's transcription; none: the file has no transcription
Statuses == {"none", "processing", "complete", "failed"}

(* ------------------------------- state --------------------------------- *)
VARIABLES
  uploaded,   \* Slack side: the files shared in the workspace
  props,      \* script properties: which of the three Slack settings are stored
  cache,      \* CacheService script cache: ticks left of each event key's marker
  pending,    \* script property PENDING_TRANSCRIPTION: <<>> or <<record>>
  triggers,   \* retryTranscriptionCheck triggers: how many fire in d ticks
  status,     \* Slack side: transcription status of each voice file
  deleted,    \* Slack side: files removed by files.delete
  markAge,    \* history: ticks since an event key was last marked seen
  chain,      \* history: the retry chain since the pending record appeared
  last,       \* history: what the last step did
  running,    \* the invocations that overlap: where each is and what it
              \* read (SpecRace, SpecOrphan)
  posted      \* history: how often a transcript was posted for each voice
              \* file, up to 2 (SpecPosts)

vars == <<uploaded, props, cache, pending, triggers, status, deleted, markAge, chain, last, running, posted>>

(* ---------------------------- Slack client ------------------------------ *)
\* the channels the app is installed into, by id, and their names
ChannelName(channelId) ==
  IF channelId = "C1" THEN "voice-memos" ELSE "general"

\* one HTTP request to the Slack Web API, as the handlers issue it
Call(api, token, file, channel, text, ok) ==
  [api |-> api, token |-> token, file |-> file, channel |-> channel,
   text |-> text, ok |-> ok]

Log(w, call) == [w EXCEPT !.calls = Append(@, call)]

getSlackConfig_tokensOnly(p) == p.SLACK_BOT_TOKEN /\ p.SLACK_USER_TOKEN

\* getSlackConfig throws unless all three properties are stored
getSlackConfig(p) ==
  p.SLACK_BOT_TOKEN /\ p.SLACK_USER_TOKEN /\ p.SLACK_CHANNEL_NAME

StatusOf(w, fileId) == IF fileId \in VoiceFiles THEN w.status[fileId] ELSE "none"

\* the file object of a files.info response
SlackFile(w, fileId, env) ==
  [id |-> fileId, mimetype |-> FileMeta(fileId).mimetype,
   status |-> StatusOf(w, fileId),
   preview |-> env.preview, has_more |-> env.has_more]

\* result: <<>> for null, <<file>> for a response with ok = true
getFileInfo(w, fileId, env) ==
  IF w.threw THEN [w |-> w, res |-> <<>>]
  ELSE IF ~getSlackConfig(w.props)
    THEN [w |-> [w EXCEPT !.threw = TRUE], res |-> <<>>]
  ELSE LET ok == env.infoOk /\ fileId \notin w.deleted
       IN [w |-> Log(w, Call("files.info", "bot", fileId, "", <<>>, ok)),
           res |-> IF ok THEN <<SlackFile(w, fileId, env)>> ELSE <<>>]

\* result: <<>> for null, <<channel>> for a response with ok = true; ok: the
\* request was answered, with ok = true
getChannelInfo(w, channelId, ok) ==
  IF w.threw THEN [w |-> w, res |-> <<>>]
  ELSE IF ~getSlackConfig(w.props)
    THEN [w |-> [w EXCEPT !.threw = TRUE], res |-> <<>>]
  ELSE [w |-> Log(w, Call("conversations.info", "bot", "", channelId, <<>>,
                          ok)),
        res |-> IF ok THEN <<[id |-> channelId, name |-> ChannelName(channelId)]>>
                ELSE <<>>]

\* result: <<>> for null, <<text>> otherwise
getFullTranscription(w, fileId, env) ==
  IF w.threw THEN [w |-> w, res |-> <<>>]
  ELSE IF ~getSlackConfig(w.props)
    THEN [w |-> [w EXCEPT !.threw = TRUE], res |-> <<>>]
  ELSE LET ok == env.fullOk /\ fileId \notin w.deleted
       \* the trace notes the full.content of the response
       IN [w |-> Log(w, Call("files.info?get_transcript", "bot", fileId, "",
                             IF ok THEN env.full ELSE <<>>, ok)),
           res |-> IF ~ok THEN <<>>
                   ELSE IF Truthy(env.full) THEN <<env.full>>
                   ELSE IF Truthy(env.preview) THEN <<env.preview>>
                   ELSE <<>>]


\* const formattedText = text.trim() || "<fallback>"
formattedText(text) ==
  IF Truthy(trim(text)) THEN trim(text) ELSE EMPTY_TEXT_FALLBACK

postTranscription_asBot(w, channelId, text, env) ==
  IF w.threw THEN w
  ELSE IF ~getSlackConfig(w.props) THEN [w EXCEPT !.threw = TRUE]
  ELSE Log(w, Call("chat.postMessage", "bot", "", channelId,
                   formattedText(text), env.postOk))

\* const token = SLACK_CONFIG.userToken
postTranscription(w, channelId, text, env) ==
  IF w.threw THEN w
  ELSE IF ~getSlackConfig(w.props) THEN [w EXCEPT !.threw = TRUE]
  ELSE Log(w, Call("chat.postMessage", "user", "", channelId,
                   formattedText(text), env.postOk))

deleteFile_throwing(w, fileId, env) ==
  IF w.threw THEN w
  ELSE IF ~getSlackConfig(w.props) THEN [w EXCEPT !.threw = TRUE]
  ELSE LET ok == env.deleteOk /\ fileId \notin w.deleted
       IN [Log(w, Call("files.delete", "user", fileId, "", <<>>, ok))
             EXCEPT !.deleted = IF ok THEN @ \cup {fileId} ELSE @,
                    !.threw = ~ok]

deleteFile(w, fileId, env) ==
  IF w.threw THEN w
  ELSE IF ~getSlackConfig(w.props) THEN [w EXCEPT !.threw = TRUE]
  ELSE IF ~w.props.SLACK_USER_TOKEN THEN w
  ELSE LET ok == env.deleteOk /\ fileId \notin w.deleted
       IN [Log(w, Call("files.delete", "user", fileId, "", <<>>, ok))
             EXCEPT !.deleted = IF ok THEN @ \cup {fileId} ELSE @]

(* ----------------------- transcription handler -------------------------- *)
appendMoreMarker_dropped(t) == t

\* transcription += " (続きがあります)"
appendMoreMarker(t) == t \o MORE_MARKER

cleanupThenPost(w, channelId, text, fileId, env) ==
  postTranscription(deleteFile(w, fileId, env), channelId, text, env)

\* postTranscription(channelId, transcription); deleteFile(fileId);
postThenCleanup(w, channelId, text, fileId, env) ==
  deleteFile(postTranscription(w, channelId, text, env), fileId, env)

postStatusMessage_thenDelete(w, channelId, text, fileId, env) ==
  postThenCleanup(w, channelId, text, fileId, env)

\* the branches for a transcription that is not complete: the message is
\* posted and the file is kept
postStatusMessage(w, channelId, text, fileId, env) ==
  postTranscription(w, channelId, text, env)

processTranscription(w, file, channelId, timestamp, env) ==
  LET fileId == file.id
      full == getFullTranscription(w, fileId, env)
      needFull == file.status = "complete" /\ Truthy(file.preview)
                  /\ file.has_more
      \* the value of the local variable transcription
      transcription ==
        IF file.status = "complete" /\ Truthy(file.preview)
        THEN IF file.has_more
             THEN IF full.res # <<>> THEN full.res[1]
                  ELSE appendMoreMarker(file.preview)
             ELSE file.preview
        ELSE DEFAULT_TRANSCRIPTION
      w1 == IF needFull THEN full.w ELSE w
      body ==
        IF file.status # "none"
        THEN IF file.status = "complete"
               THEN postThenCleanup(w1, channelId, transcription, fileId, env)
             ELSE IF file.status = "processing"
               THEN postStatusMessage(w, channelId, PROCESSING_MESSAGE,
                                      fileId, env)
             ELSE IF file.status = "failed"
               THEN postStatusMessage(w, channelId, FAILED_MESSAGE, fileId, env)
             ELSE postStatusMessage(w, channelId, UNKNOWN_STATUS_MESSAGE,
                                    fileId, env)
        ELSE postStatusMessage(w, channelId, NO_TRANSCRIPTION_MESSAGE,
                               fileId, env)
  IN IF body.threw
     THEN \* catch: post the minimum result
          postTranscription([body EXCEPT !.threw = FALSE], channelId,
                            IF needFull /\ full.w.threw THEN file.preview
                            ELSE transcription, env)
     ELSE body

\* ScriptApp.newTrigger('retryTranscriptionCheck').timeBased().after(10000)
newTrigger(w) ==
  [Log(w, Call("ScriptApp.newTrigger", "", "", "", <<>>, TRUE))
     EXCEPT !.triggers[RetryTicks] = @ + 1]

PendingTranscription(fileId, channelId, timestamp, retryCount, maxRetries) ==
  [fileId |-> fileId, channelId |-> channelId, timestamp |-> timestamp,
   retryCount |-> retryCount, maxRetries |-> maxRetries]

schedulePendingTranscription_unsaved(w, fileId, channelId, timestamp) ==
  newTrigger(w)

schedulePendingTranscription(w, fileId, channelId, timestamp) ==
  [newTrigger(w) EXCEPT !.pending =
     <<PendingTranscription(fileId, channelId, timestamp, 0, MAX_RETRIES)>>]

\* deletes the property and every retryTranscriptionCheck trigger
cleanupPendingTranscription(w) ==
  [w EXCEPT !.pending = <<>>, !.triggers = [d \in 0..RetryTicks |-> 0]]

processVoiceMemo_lastFile(w0, event, env) ==
  LET fileId == IF event.files # <<>> THEN event.files[Len(event.files)] ELSE ""
      w == Log(w0, Call("processVoiceMemo", "", fileId, event.channel, <<>>,
                        TRUE))
      info == getFileInfo(w, fileId, env)
      body ==
        IF fileId = "" THEN w
        ELSE IF info.w.threw \/ info.res = <<>> THEN info.w
        ELSE LET file == info.res[1]
             IN IF ~(file.mimetype # <<>> /\ MimeIsAudio(file.mimetype))
                  THEN info.w
                ELSE IF file.status = "complete"
                  THEN processTranscription(info.w, file, event.channel,
                                            event.ts, env)
                ELSE schedulePendingTranscription(info.w, fileId,
                                                  event.channel, event.ts)
  IN [body EXCEPT !.threw = FALSE]

\* the call is noted in the trace (w.calls)
processVoiceMemo(w0, event, env) ==
  LET fileId == IF event.files # <<>> THEN event.files[1] ELSE ""
      w == Log(w0, Call("processVoiceMemo", "", fileId, event.channel, <<>>,
                        TRUE))
      info == getFileInfo(w, fileId, env)
      body ==
        IF fileId = "" THEN w
        ELSE IF info.w.threw \/ info.res = <<>> THEN info.w
        ELSE LET file == info.res[1]
             IN IF ~(file.mimetype # <<>> /\ MimeIsAudio(file.mimetype))
                  THEN info.w
                ELSE IF file.status = "complete"
                  THEN processTranscription(info.w, file, event.channel,
                                            event.ts, env)
                ELSE schedulePendingTranscription(info.w, fileId,
                                                  event.channel, event.ts)
  IN \* catch: the error is logged
     [body EXCEPT !.threw = FALSE]

retryExhausted_late(retryCount, maxRetries) == retryCount > maxRetries

\* else if (retryCount >= maxRetries)
retryExhausted(retryCount, maxRetries) == retryCount >= maxRetries

nextRetry_same(pendingData) == pendingData

\* JSON.stringify({...pendingData, retryCount: retryCount + 1})
nextRetry(pendingData) == [pendingData EXCEPT !.retryCount = @ + 1]

retryTranscriptionCheck(w, env) ==
  IF w.pending = <<>> THEN w
  ELSE
    LET pendingData == w.pending[1]
        info == getFileInfo(w, pendingData.fileId, env)
        processed(file) ==
          LET r == processTranscription(info.w, file, pendingData.channelId,
                                        pendingData.timestamp, env)
          IN IF r.threw THEN r ELSE cleanupPendingTranscription(r)
        body ==
          IF info.w.threw THEN info.w
          ELSE IF info.res = <<>> THEN cleanupPendingTranscription(info.w)
          ELSE LET file == info.res[1]
               IN IF file.status = "complete" THEN processed(file)
                  ELSE IF retryExhausted(pendingData.retryCount,
                                         pendingData.maxRetries)
                    THEN processed(file)
                  ELSE newTrigger(
                         [info.w EXCEPT !.pending =
                            <<nextRetry(pendingData)>>])
    IN IF body.threw
       THEN cleanupPendingTranscription([body EXCEPT !.threw = FALSE])
       ELSE body

(* ------------------------------ helpers --------------------------------- *)
\* an id of the model as a string: one symbol that is not '_'; '' is empty
Str(id) == IF id = "" THEN <<>> ELSE <<id>>

eventKeyTemplate_noSeparator(fileId, channelId, userId, timestamp) ==
  fileId \o channelId \o userId \o timestamp

\* `${fileId}_${channelId}_${userId}_${timestamp}`, on strings as sequences
\* of characters
eventKeyTemplate(fileId, channelId, userId, timestamp) ==
  fileId \o <<"_">> \o channelId \o <<"_">> \o userId \o <<"_">> \o timestamp

createEventKey(data) ==
  LET event == data.event[1]
      fileId ==
        IF event.type = "file_shared"
          THEN IF event.file_id # "" THEN event.file_id ELSE event.file
        ELSE IF event.type = "message" /\ event.subtype = "file_share"
          THEN IF Len(event.files) > 0 THEN event.files[1] ELSE ""
        ELSE ""
      channelId == IF event.channel # "" THEN event.channel ELSE event.channel_id
      userId == IF event.user # "" THEN event.user ELSE event.user_id
      timestamp == IF event.ts # "" THEN event.ts ELSE event.event_ts
  IN eventKeyTemplate(Str(fileId), Str(channelId), Str(userId),
                      Str(timestamp))

cachePut_skipped(c, cacheKey, seconds) == c

cacheGet_miss(c, cacheKey) == FALSE

\* cache.put(cacheKey, 'processed', seconds)
cachePut(c, cacheKey, seconds) ==
  [c EXCEPT ![cacheKey] = seconds \div TickSeconds]

\* cache.get(cacheKey): the value, or null once the entry has expired
cacheGet(c, cacheKey) == c[cacheKey] > 0

\* cache.remove(cacheKey): no effect when the cache holds no such entry
cacheRemove(c, cacheKey) ==
  IF cacheKey \in DOMAIN c THEN [c EXCEPT ![cacheKey] = 0] ELSE c

\* the entry clearEventCache names is 'processed_event_keys': the marker of
\* an event key 'keys'
CLEARED_EVENT_KEY == <<"k", "e", "y", "s">>

\* CacheService.getScriptCache().remove('processed_event_keys')
clearEventCache(w) == [w EXCEPT !.cache = cacheRemove(@, CLEARED_EVENT_KEY)]

\* each call that returns is noted with its return value in the trace
\* (w.calls); a CacheService call that fails throws
isDuplicateEvent(w, eventKey, env) ==
  LET note(r) == Log(w, Call("isDuplicateEvent", "", "", "", eventKey, r))
  IN IF eventKey = <<>> THEN [w |-> note(FALSE), res |-> FALSE]
     ELSE IF ~env.cacheOk
       THEN [w |-> [Log(w, Call("CacheService.getScriptCache", "", "", "",
                                eventKey, FALSE)) EXCEPT !.threw = TRUE],
             res |-> FALSE]
     ELSE IF cacheGet(w.cache, eventKey) THEN [w |-> note(TRUE), res |-> TRUE]
     ELSE [w |-> [note(FALSE) EXCEPT
                    !.cache = cachePut(@, eventKey, DEDUP_TTL_SECONDS)],
           res |-> FALSE]

(* ---------------------------- event handler ----------------------------- *)
handleFileShareEvent_unmarkOnFailure(w, data, eventKey, env) ==
  LET event == data.event[1]
      fileInfo == FileMeta(event.files[1])
      dup == isDuplicateEvent(w, eventKey, env)
      done == processVoiceMemo(dup.w, event, env)
  IN IF event.files = <<>>
       THEN [w |-> w, resp |-> "No file information"]
     ELSE IF ~isAudioFile(fileInfo.filetype, fileInfo.mimetype)
       THEN [w |-> w, resp |-> "Not an audio file"]
     ELSE IF dup.w.threw
       THEN [w |-> dup.w, resp |-> ""]
     ELSE IF dup.res
       THEN [w |-> dup.w, resp |-> "Duplicate event"]
     ELSE [w |-> IF \A i \in DOMAIN done.calls :
                      done.calls[i].api \notin
                        {"chat.postMessage", "ScriptApp.newTrigger"}
                 THEN [done EXCEPT !.cache = w.cache] ELSE done,
           resp |-> "Processing voice memo"]

handleFileShareEvent(w, data, eventKey, env) ==
  LET event == data.event[1]
      fileInfo == FileMeta(event.files[1])
      dup == isDuplicateEvent(w, eventKey, env)
  IN IF event.files = <<>>
       THEN [w |-> w, resp |-> "No file information"]
     ELSE IF ~isAudioFile(fileInfo.filetype, fileInfo.mimetype)
       THEN [w |-> w, resp |-> "Not an audio file"]
     ELSE IF dup.w.threw
       THEN [w |-> dup.w, resp |-> ""]
     ELSE IF dup.res
       THEN [w |-> dup.w, resp |-> "Duplicate event"]
     ELSE [w |-> processVoiceMemo(dup.w, event, env),
           resp |-> "Processing voice memo"]

handleEvent_dedupFirst(w, data, env) ==
  IF data.event = <<>> THEN [w |-> w, resp |-> "No event data"]
  ELSE LET event == data.event[1]
           dup == isDuplicateEvent(w, createEventKey(data), env)
       IN IF dup.res THEN [w |-> dup.w, resp |-> "Duplicate event"]
          ELSE IF event.type = "file_shared"
            THEN [w |-> dup.w, resp |-> "File shared event received"]
          ELSE IF event.type = "message" /\ event.subtype = "file_share"
            THEN handleFileShareEvent(w, data, createEventKey(data), env)
          ELSE [w |-> dup.w, resp |-> "Unsupported event type"]

\* catch (error) { logError(...); return 'Error processing event'; }
caught(r) ==
  IF r.w.threw
  THEN [w |-> [r.w EXCEPT !.threw = FALSE], resp |-> "Error processing event"]
  ELSE r

handleEvent(w, data, env) ==
  caught(
    IF data.event = <<>> THEN [w |-> w, resp |-> "No event data"]
    ELSE IF data.type = "url_verification"
      THEN [w |-> w, resp |-> data.challenge]
    ELSE LET event == data.event[1]
             eventKey == createEventKey(data)
         IN IF event.type = "file_shared"
              THEN [w |-> w, resp |-> "File shared event received"]
            ELSE IF event.type = "message" /\ event.subtype = "file_share"
              THEN handleFileShareEvent(w, data, eventKey, env)
            ELSE [w |-> w, resp |-> "Unsupported event type"])

doPost_delegating(w, data, env) ==
  IF ~data.parseOk THEN [w |-> w, resp |-> "Error processing event"]
  ELSE handleEvent(w, data, env)

doPost_verifyLast(w, data, env) ==
  IF ~data.parseOk THEN [w |-> w, resp |-> "Error processing event"]
  ELSE LET r == handleEvent_dedupFirst(w, data, env)
       IN IF data.type = "url_verification"
          THEN [w |-> r.w, resp |-> data.challenge]
          ELSE r

\* the try block of doPost; JSON.parse throws on a malformed body
doPostBody(w, data, env) ==
  IF ~data.parseOk THEN [w |-> [w EXCEPT !.threw = TRUE], resp |-> ""]
  ELSE IF data.type = "url_verification"
    THEN [w |-> w, resp |-> data.challenge]
  ELSE handleEvent(w, data, env)

doPost_uncaught(w, data, env) == doPostBody(w, data, env)

\* main.ts doPost: the new world and the response body
doPost(w, data, env) == caught(doPostBody(w, data, env))

(* --------------------------- webhook payloads --------------------------- *)
Event(type, subtype, files, file_id) ==
  [type |-> type, subtype |-> subtype, files |-> files, file_id |-> file_id,
   file |-> "",
   channel |-> IF type = "file_shared" THEN "" ELSE "C1",
   channel_id |-> IF type = "file_shared" THEN "C1" ELSE "",
   user |-> IF type = "file_shared" THEN "" ELSE "U1",
   user_id |-> IF type = "file_shared" THEN "U1" ELSE "",
   ts |-> IF type = "file_shared" THEN "" ELSE "t1",
   event_ts |-> IF type = "file_shared" THEN "t1" ELSE ""]

Events ==
  {Event("file_shared", "", <<>>, "F1")}
  \cup {Event("message", "file_share", <<f>>, "") : f \in Files}
  \cup {Event("message", "file_share", <<>>, ""),
        Event("message", "file_share", <<"F1", "F4">>, ""),
        Event("message", "channel_join", <<>>, "")}

Payload(parseOk, type, challenge, event) ==
  [parseOk |-> parseOk, type |-> type, challenge |-> challenge,
   event |-> event]

NoData == Payload(FALSE, "", "", <<>>)

Payloads ==
  {NoData}
  \cup {Payload(TRUE, "url_verification", "abc123", ev) :
          ev \in {<<>>, <<Event("message", "file_share", <<"F1">>, "")>>,
                  <<Event("message", "channel_join", <<>>, "")>>}}
  \cup {Payload(TRUE, "event_callback", "", <<>>)}
  \cup {Payload(TRUE, "event_callback", "", <<ev>>) : ev \in Events}

\* the value stored as SLACK_CHANNEL_NAME
MONITORED_CHANNEL_NAME == "voice-memos"

\* a voice memo shared in the other channel
OtherChannelShare ==
  Payload(TRUE, "event_callback", "",
          <<[Event("message", "file_share", <<"F1">>, "")
               EXCEPT !.channel = "C2"]>>)

\* the keys the duplicate check can be asked about
EventKeys ==
  {createEventKey(d) :
     d \in {p \in Payloads \cup {OtherChannelShare} : p.event # <<>>}}

(* ------------------------- Slack's answers ------------------------------ *)
DefaultEnv ==
  [cacheOk |-> TRUE, infoOk |-> TRUE, preview |-> <<>>, has_more |-> FALSE,
   fullOk |-> TRUE, full |-> <<>>, postOk |-> TRUE, deleteOk |-> TRUE]

\* the answers that matter to an invocation that finds status st: the preview
\* and the full text only when st is complete, the second lookup only when
\* the preview is not empty and has more
EnvsFor(T, st) ==
  {e \in [cacheOk : BOOLEAN, infoOk : BOOLEAN, preview : T,
          has_more : BOOLEAN, fullOk : BOOLEAN, full : T, postOk : BOOLEAN,
          deleteOk : BOOLEAN] :
     /\ ~e.cacheOk => e = [DefaultEnv EXCEPT !.cacheOk = FALSE]
     /\ ~e.infoOk => e = [DefaultEnv EXCEPT !.infoOk = FALSE]
     /\ st # "complete" =>
          e.preview = <<>> /\ ~e.has_more /\ e.deleteOk
     /\ ~(e.has_more /\ Truthy(e.preview)) => e.fullOk /\ e.full = <<>>
     /\ ~e.fullOk => e.full = <<>>}

SysEnvs == [st \in Statuses |-> EnvsFor(SysTexts, st)]

(* ------------------------------ actions --------------------------------- *)
\* the requests doPost is serving concurrently
Deliveries == 1..2

\* cachedEvent is what cache.get returned; sawMarker notes whether another
\* request had put the marker by then
NotRunning ==
  [d \in Deliveries |-> [pc |-> "start", cachedEvent |-> FALSE,
                         sawMarker |-> FALSE, resp |-> ""]]

StatusMessages ==
  {PROCESSING_MESSAGE, FAILED_MESSAGE, UNKNOWN_STATUS_MESSAGE,
   NO_TRANSCRIPTION_MESSAGE}

NotPosted == [f \in VoiceFiles |-> 0]

World ==
  [props |-> props, cache |-> cache, pending |-> pending,
   triggers |-> triggers, status |-> status, deleted |-> deleted,
   calls |-> <<>>, threw |-> FALSE]

TriggerCount(t) == t[0] + t[RetryTicks]

Count(calls, api) == Cardinality({i \in DOMAIN calls : calls[i].api = api})

Min(a, b) == IF a < b THEN a ELSE b

\* the file files.info returned in the trace, <<>> if none did
ViewOf(calls, env) ==
  LET hit == {i \in DOMAIN calls : calls[i].api = "files.info" /\ calls[i].ok}
  IN IF hit = {} THEN <<>>
     ELSE <<SlackFile(World, calls[CHOOSE i \in hit : TRUE].file, env)>>

\* what getFullTranscription returned in the trace, <<>> for null or no call
FullOf(calls, env) ==
  LET hit == {i \in DOMAIN calls : calls[i].api = "files.info?get_transcript"}
  IN IF hit = {} THEN <<>>
     ELSE getFullTranscription(World, calls[CHOOSE i \in hit : TRUE].file,
                               env).res

Last(op, data, resp, calls, env, age, rc, escaped) ==
  [op |-> op, data |-> data, resp |-> resp, calls |-> calls,
   view |-> ViewOf(calls, env), full |-> FullOf(calls, env),
   age |-> age, rc |-> rc, escaped |-> escaped]

Idle(op) == Last(op, NoData, "", <<>>, DefaultEnv, -1, -1, FALSE)

\* the marker ages after a trace: a call that returned false marked its key
Marked(calls, ages) ==
  [k \in EventKeys |->
     IF \E i \in DOMAIN calls :
          calls[i].api = "isDuplicateEvent" /\ calls[i].text = k /\ ~calls[i].ok
     THEN 0 ELSE ages[k]]

ChainCap == MAX_RETRIES + 2

\* the chain history after an invocation
Chained(before, after, calls, isRetry) ==
  LET made == Count(calls, "ScriptApp.newTrigger")
  IN IF isRetry
     THEN IF before = <<>> \/ chain.starts # 1 THEN chain
          ELSE [chain EXCEPT !.checks = Min(ChainCap, @ + 1),
                             !.waits = Min(ChainCap, @ + made)]
     ELSE IF made = 0 THEN chain
          ELSE IF before = <<>> THEN [starts |-> 1, checks |-> 0, waits |-> 1]
          ELSE \* a second chain was started on the same record
               [starts |-> 2, checks |-> 0, waits |-> 0]

EnvsOf(data) ==
  IF /\ data.parseOk /\ data.event # <<>>
     /\ data.event[1].type = "message" /\ data.event[1].files # <<>>
  THEN SysEnvs[StatusOf(World, data.event[1].files[1])]
  ELSE {DefaultEnv}

\* the deliveries Slack can make: about files that were shared
Deliverable ==
  {d \in Payloads :
     d.event # <<>> =>
       /\ \A i \in DOMAIN d.event[1].files : d.event[1].files[i] \in uploaded
       /\ d.event[1].file_id # "" => d.event[1].file_id \in uploaded}

\* doPost runs on one request body
Deliver(data) ==
    \E env \in EnvsOf(data) :
      LET r == doPost(World, data, env)
          key == IF data.event # <<>> THEN createEventKey(data) ELSE <<>>
      IN /\ last.op = "idle"
         /\ TriggerCount(r.w.triggers) <= MaxTriggers
         /\ cache' = r.w.cache
         /\ pending' = r.w.pending
         /\ triggers' = r.w.triggers
         /\ deleted' = r.w.deleted
         /\ markAge' = Marked(r.w.calls, markAge)
         /\ chain' = Chained(pending, r.w.pending, r.w.calls, FALSE)
         /\ last' = Last("doPost", data, r.resp, r.w.calls, env,
                         IF key \in EventKeys THEN markAge[key] ELSE -1,
                         -1, r.w.threw)
         /\ UNCHANGED <<running, uploaded, props, status>>

\* a webhook delivery
DoPost == (\E data \in Deliverable : Deliver(data)) /\ UNCHANGED posted

\* a due trigger fires
Recheck ==
  /\ last.op = "idle"
  /\ triggers[0] > 0
  /\ \E env \in SysEnvs[IF pending = <<>> THEN "none"
                        ELSE StatusOf(World, pending[1].fileId)] :
       LET r == retryTranscriptionCheck(
                  [World EXCEPT !.triggers[0] = @ - 1], env)
       IN /\ cache' = r.cache
          /\ pending' = r.pending
          /\ triggers' = r.triggers
          /\ deleted' = r.deleted
          /\ chain' = Chained(pending, r.pending, r.calls, TRUE)
          /\ last' = Last("retryTranscriptionCheck", NoData, "", r.calls, env,
                          -1,
                          IF pending = <<>> THEN -1 ELSE pending[1].retryCount,
                          r.threw)
          /\ UNCHANGED <<running, uploaded, props, status, markAge>>

RetryTranscriptionCheck == Recheck /\ UNCHANGED posted

\* the invocation has returned; its trace is no longer looked at
Return ==
  /\ last.op # "idle"
  /\ last' = Idle("idle")
  /\ UNCHANGED <<posted, running, uploaded, props, cache, pending, triggers, status, deleted,
                 markAge, chain>>

\* ten seconds pass
Tick ==
  /\ last.op = "idle"
  /\ cache' = [k \in EventKeys |-> IF cache[k] > 0 THEN cache[k] - 1 ELSE 0]
  /\ triggers' = [d \in 0..RetryTicks |->
                    IF d = 0 THEN triggers[0] + triggers[RetryTicks] ELSE 0]
  /\ markAge' = [k \in EventKeys |->
                   IF markAge[k] < 0 THEN markAge[k]
                   ELSE Min(TtlTicks, markAge[k] + 1)]
  /\ UNCHANGED <<posted, running, uploaded, props, pending, status, deleted, chain, last>>

\* Slack's own transcription job moves on
SlackTranscribes ==
  \E f \in (VoiceFiles \cap uploaded) \ deleted :
    \E st \in {"processing", "complete", "failed"} :
      /\ last.op = "idle"
      /\ \/ status[f] = "none" /\ st = "processing"
         \/ status[f] = "processing" /\ st \in {"complete", "failed"}
      /\ status' = [status EXCEPT ![f] = st]
      /\ UNCHANGED <<posted, running, uploaded, props, cache, pending, triggers, deleted,
                     markAge, chain, last>>

\* config.setupCredentials(botToken?, userToken?, channelName?)
SetupCredentials ==
  \E botToken \in BOOLEAN, userToken \in BOOLEAN, channelName \in BOOLEAN :
    /\ last.op = "idle"
    /\ botToken \/ props.SLACK_BOT_TOKEN
    /\ props' = [SLACK_BOT_TOKEN |-> TRUE,
                 SLACK_USER_TOKEN |-> userToken \/ props.SLACK_USER_TOKEN,
                 SLACK_CHANNEL_NAME |-> channelName \/ props.SLACK_CHANNEL_NAME]
    /\ props' # props
    /\ UNCHANGED <<posted, running, uploaded, cache, pending, triggers, status, deleted,
                   markAge, chain, last>>

Init ==
  /\ uploaded = {"F1", "F4"}
  /\ props = [SLACK_BOT_TOKEN |-> FALSE, SLACK_USER_TOKEN |-> FALSE,
              SLACK_CHANNEL_NAME |-> FALSE]
  /\ cache = [k \in EventKeys |-> 0]
  /\ pending = <<>>
  /\ triggers = [d \in 0..RetryTicks |-> 0]
  /\ status = [f \in VoiceFiles |-> "none"]
  /\ deleted = {}
  /\ markAge = [k \in EventKeys |-> -1]
  /\ chain = [starts |-> 0, checks |-> 0, waits |-> 0]
  /\ last = Idle("idle")
  /\ running = NotRunning
  /\ posted = NotPosted

Next ==
  \/ DoPost
  \/ RetryTranscriptionCheck
  \/ Return
  \/ Tick
  \/ SlackTranscribes
  \/ SetupCredentials

Spec == Init /\ [][Next]_vars

\* the scheduling of Apps Script: time passes, a due trigger is fired although
\* webhook deliveries keep arriving, and an invocation returns
SpecLive ==
  /\ Init /\ [][Next]_vars
  /\ SF_vars(Tick)
  /\ SF_vars(RetryTranscriptionCheck)
  /\ WF_vars(Return)

(* ------------------ two voice memos at once (SpecTwo) ------------------- *)
\* the message/file_share deliveries of two uploads
TwoFileShares ==
  {Payload(TRUE, "event_callback", "",
           <<Event("message", "file_share", <<f>>, "")>>) : f \in {"F1", "F2"}}

\* each of the two events is delivered once
DoPostFileShare ==
  \E data \in TwoFileShares :
    markAge[createEventKey(data)] = -1 /\ Deliver(data) /\ UNCHANGED posted

\* credentials are stored, two voice memos were uploaded and Slack has
\* started to transcribe them
TwoInit ==
  /\ uploaded = {"F1", "F2"}
  /\ props = [SLACK_BOT_TOKEN |-> TRUE, SLACK_USER_TOKEN |-> TRUE,
              SLACK_CHANNEL_NAME |-> TRUE]
  /\ cache = [k \in EventKeys |-> 0]
  /\ pending = <<>>
  /\ triggers = [d \in 0..RetryTicks |-> 0]
  /\ status = [f \in VoiceFiles |-> "processing"]
  /\ deleted = {}
  /\ markAge = [k \in EventKeys |-> -1]
  /\ chain = [starts |-> 0, checks |-> 0, waits |-> 0]
  /\ last = Idle("idle")
  /\ running = NotRunning
  /\ posted = NotPosted

TwoNext ==
  \/ DoPostFileShare
  \/ RetryTranscriptionCheck
  \/ Return
  \/ Tick
  \/ SlackTranscribes

SpecTwo == TwoInit /\ [][TwoNext]_vars

(* ------------- a memo in an unmonitored channel (SpecChannel) ----------- *)
DoPostOtherChannel == Deliver(OtherChannelShare) /\ UNCHANGED posted

\* credentials and the channel name are stored, one voice memo was uploaded
ChannelInit ==
  /\ uploaded = {"F1"}
  /\ props = [SLACK_BOT_TOKEN |-> TRUE, SLACK_USER_TOKEN |-> TRUE,
              SLACK_CHANNEL_NAME |-> TRUE]
  /\ cache = [k \in EventKeys |-> 0]
  /\ pending = <<>>
  /\ triggers = [d \in 0..RetryTicks |-> 0]
  /\ status = [f \in VoiceFiles |-> "none"]
  /\ deleted = {}
  /\ markAge = [k \in EventKeys |-> -1]
  /\ chain = [starts |-> 0, checks |-> 0, waits |-> 0]
  /\ last = Idle("idle")
  /\ running = NotRunning
  /\ posted = NotPosted

ChannelNext ==
  \/ DoPostOtherChannel
  \/ RetryTranscriptionCheck
  \/ Return
  \/ Tick
  \/ SlackTranscribes

SpecChannel == ChannelInit /\ [][ChannelNext]_vars

(* ------- overlapping deliveries of one event, step by step (SpecRace) ---- *)
\* Slack delivers the message/file_share event of F1 more than once
RaceShare ==
  Payload(TRUE, "event_callback", "",
          <<Event("message", "file_share", <<"F1">>, "")>>)

\* doPost up to isDuplicateEvent's  cache.get(cacheKey)
CacheGet(d) ==
  /\ running[d].pc = "start"
  /\ isAudioFile(FileMeta("F1").filetype, FileMeta("F1").mimetype)
  /\ running' = [running EXCEPT ![d] =
       [pc |-> "read",
        cachedEvent |-> cacheGet(cache, createEventKey(RaceShare)),
        sawMarker |-> \E o \in Deliveries : running[o].pc \in {"wrote", "done"},
        resp |-> ""]]
  /\ UNCHANGED <<posted, uploaded, props, cache, pending, triggers, status, deleted,
                 markAge, chain, last>>

\* if (cache.get(cacheKey)) return true;  handleFileShareEvent answers
ReturnDuplicate(d) ==
  /\ running[d].pc = "read" /\ running[d].cachedEvent
  /\ running' = [running EXCEPT ![d].pc = "done",
                                ![d].resp = "Duplicate event"]
  /\ UNCHANGED <<posted, uploaded, props, cache, pending, triggers, status, deleted,
                 markAge, chain, last>>

\* cache.put(cacheKey, 'processed', 30); return false;
CachePut(d) ==
  /\ running[d].pc = "read" /\ ~running[d].cachedEvent
  /\ cache' = cachePut(cache, createEventKey(RaceShare), DEDUP_TTL_SECONDS)
  /\ markAge' = [markAge EXCEPT ![createEventKey(RaceShare)] = 0]
  /\ running' = [running EXCEPT ![d].pc = "wrote"]
  /\ UNCHANGED <<posted, uploaded, props, pending, triggers, status, deleted, chain,
                 last>>

\* processVoiceMemo(event); return 'Processing voice memo';
InvokePipeline(d) ==
  /\ running[d].pc = "wrote"
  /\ last.op = "idle"
  /\ \E env \in SysEnvs[StatusOf(World, "F1")] :
       LET r == processVoiceMemo(World, RaceShare.event[1], env)
       IN /\ TriggerCount(r.triggers) <= MaxTriggers
          /\ cache' = r.cache
          /\ pending' = r.pending
          /\ triggers' = r.triggers
          /\ deleted' = r.deleted
          /\ chain' = Chained(pending, r.pending, r.calls, FALSE)
          /\ last' = Last("doPost", RaceShare, "Processing voice memo",
                          r.calls, env, markAge[createEventKey(RaceShare)],
                          -1, r.threw)
  /\ running' = [running EXCEPT ![d].pc = "done",
                                ![d].resp = "Processing voice memo"]
  /\ UNCHANGED <<posted, uploaded, props, status, markAge>>

\* credentials are stored and one voice memo was uploaded
RaceInit ==
  /\ uploaded = {"F1"}
  /\ props = [SLACK_BOT_TOKEN |-> TRUE, SLACK_USER_TOKEN |-> TRUE,
              SLACK_CHANNEL_NAME |-> TRUE]
  /\ cache = [k \in EventKeys |-> 0]
  /\ pending = <<>>
  /\ triggers = [d \in 0..RetryTicks |-> 0]
  /\ status = [f \in VoiceFiles |-> "none"]
  /\ deleted = {}
  /\ markAge = [k \in EventKeys |-> -1]
  /\ chain = [starts |-> 0, checks |-> 0, waits |-> 0]
  /\ last = Idle("idle")
  /\ running = NotRunning
  /\ posted = NotPosted

\* the requests run within the lifetime of a marker: no Tick
RaceNext ==
  \/ \E d \in Deliveries : CacheGet(d)
  \/ \E d \in Deliveries : ReturnDuplicate(d)
  \/ \E d \in Deliveries : CachePut(d)
  \/ \E d \in Deliveries : InvokePipeline(d)
  \/ Return
  \/ SlackTranscribes

SpecRace == RaceInit /\ [][RaceNext]_vars

(* ----- scheduling and cleanup by overlapping invocations (SpecOrphan) ---- *)
\* the share of the second memo
SecondShare ==
  Payload(TRUE, "event_callback", "",
          <<Event("message", "file_share", <<"F2">>, "")>>)

\* the first memo is delivered once
DoPostFirstShare ==
  /\ markAge[createEventKey(RaceShare)] = -1
  /\ Deliver(RaceShare)
  /\ UNCHANGED posted

\* invocation 1 is the doPost of the second memo, invocation 2 a recheck
\* that ends in cleanupPendingTranscription
\* doPost up to schedulePendingTranscription's  ScriptApp.newTrigger(...)
ScheduleNewTrigger ==
  /\ running[1].pc = "start"
  /\ \E env \in EnvsOf(SecondShare) :
       LET r == doPost(World, SecondShare, env)
       IN /\ Count(r.w.calls, "ScriptApp.newTrigger") = 1
          /\ TriggerCount(r.w.triggers) <= MaxTriggers
          /\ cache' = r.w.cache
          /\ triggers' = r.w.triggers
          /\ markAge' = Marked(r.w.calls, markAge)
  /\ running' = [running EXCEPT ![1].pc = "triggered"]
  /\ UNCHANGED <<uploaded, props, pending, status, deleted, chain, last,
                 posted>>

\* setProperty('PENDING_TRANSCRIPTION', JSON.stringify(pendingData))
ScheduleSetProperty ==
  /\ running[1].pc = "triggered"
  /\ pending' = <<PendingTranscription("F2", "C1", "t1", 0, MAX_RETRIES)>>
  /\ running' = [running EXCEPT ![1].pc = "done",
                                ![1].resp = "Processing voice memo"]
  /\ UNCHANGED <<uploaded, props, cache, triggers, status, deleted, markAge,
                 chain, last, posted>>

\* retryTranscriptionCheck up to cleanupPendingTranscription's
\* deleteProperty('PENDING_TRANSCRIPTION')
CleanupDeleteProperty ==
  /\ running[2].pc = "start"
  /\ triggers[0] > 0
  /\ pending # <<>>
  /\ \E env \in SysEnvs[StatusOf(World, pending[1].fileId)] :
       LET fired == [World EXCEPT !.triggers[0] = @ - 1]
           r == retryTranscriptionCheck(fired, env)
       IN /\ r.pending = <<>>
          /\ cache' = r.cache
          /\ deleted' = r.deleted
          /\ pending' = <<>>
          /\ triggers' = fired.triggers
  /\ running' = [running EXCEPT ![2].pc = "deleted"]
  /\ UNCHANGED <<uploaded, props, status, markAge, chain, last, posted>>

\* for (const trigger of ScriptApp.getProjectTriggers()) deleteTrigger
CleanupDeleteTriggers ==
  /\ running[2].pc = "deleted"
  /\ triggers' = [d \in 0..RetryTicks |-> 0]
  /\ running' = [running EXCEPT ![2].pc = "done"]
  /\ UNCHANGED <<uploaded, props, cache, pending, status, deleted, markAge,
                 chain, last, posted>>

OrphanNext ==
  \/ DoPostFirstShare
  \/ ScheduleNewTrigger
  \/ ScheduleSetProperty
  \/ CleanupDeleteProperty
  \/ CleanupDeleteTriggers
  \/ RetryTranscriptionCheck
  \/ Return
  \/ Tick
  \/ SlackTranscribes

SpecOrphan == TwoInit /\ [][OrphanNext]_vars

(* --------- counting the transcripts posted for a memo (SpecPosts) ------- *)
\* the posts of a trace that carry a transcript
TranscriptPosts(calls) ==
  Cardinality({i \in DOMAIN calls :
                 /\ calls[i].api = "chat.postMessage"
                 /\ calls[i].text \notin StatusMessages})

\* the count after an invocation that looked up file f
Counted(calls) ==
  [f \in VoiceFiles |->
     IF \E i \in DOMAIN calls : calls[i].api = "files.info" /\ calls[i].file = f
     THEN Min(2, posted[f] + TranscriptPosts(calls))
     ELSE posted[f]]

\* Slack delivers the share of the memo, and may deliver it again
DoPostShare ==
  /\ Deliver(RaceShare)
  /\ posted' = Counted(last'.calls)

RetryTranscriptionCheckCounted ==
  /\ Recheck
  /\ posted' = Counted(last'.calls)

PostsNext ==
  \/ DoPostShare
  \/ RetryTranscriptionCheckCounted
  \/ Return
  \/ Tick
  \/ SlackTranscribes

\* credentials are stored, one voice memo was uploaded
SpecPosts == ChannelInit /\ [][PostsNext]_vars

(* ------------ messages with more than one attachment (SpecMulti) -------- *)
\* one message that shares two files: a voice memo and a second voice memo,
\* or a text file and a voice memo
MultiShares ==
  {Payload(TRUE, "event_callback", "",
           <<Event("message", "file_share", files, "")>>) :
     files \in {<<"F1", "F2">>, <<"F4", "F2">>}}

DoPostMultiShare ==
  /\ \E data \in MultiShares : Deliver(data)
  /\ UNCHANGED posted

\* credentials are stored, the files were uploaded
MultiInit ==
  /\ uploaded = {"F1", "F2", "F4"}
  /\ props = [SLACK_BOT_TOKEN |-> TRUE, SLACK_USER_TOKEN |-> TRUE,
              SLACK_CHANNEL_NAME |-> TRUE]
  /\ cache = [k \in EventKeys |-> 0]
  /\ pending = <<>>
  /\ triggers = [d \in 0..RetryTicks |-> 0]
  /\ status = [f \in VoiceFiles |-> "none"]
  /\ deleted = {}
  /\ markAge = [k \in EventKeys |-> -1]
  /\ chain = [starts |-> 0, checks |-> 0, waits |-> 0]
  /\ last = Idle("idle")
  /\ running = NotRunning
  /\ posted = NotPosted

MultiNext ==
  \/ DoPostMultiShare
  \/ RetryTranscriptionCheck
  \/ Return
  \/ Tick
  \/ SlackTranscribes

SpecMulti == MultiInit /\ [][MultiNext]_vars

(* ------------- the debugging function clearEventCache (SpecAdmin) ------- *)
\* run by hand from the script editor
ClearEventCache ==
  /\ last.op = "idle"
  /\ cache' = clearEventCache(World).cache
  /\ pending' = clearEventCache(World).pending
  /\ triggers' = clearEventCache(World).triggers
  /\ last' = Idle("clearEventCache")
  /\ UNCHANGED <<posted, running, uploaded, props, status, deleted, markAge, chain>>

AdminNext ==
  \/ DoPost
  \/ RetryTranscriptionCheck
  \/ Return
  \/ Tick
  \/ SlackTranscribes
  \/ ClearEventCache

\* credentials are stored, one voice memo was uploaded
SpecAdmin == ChannelInit /\ [][AdminNext]_vars

(* ---------- two memos shared within one marker lifetime (SpecKey) ------- *)
\* what a field of an event can hold: strings with and without '_'
KeyParts == {<<>>, <<"a">>, <<"a", "a">>, <<"_">>, <<"_", "a">>}

\* <<files[0].id, channel, user, ts>> of a message/file_share event
ShareFields == KeyParts \X KeyParts \X KeyParts \X KeyParts

KeyOfShare(e) == eventKeyTemplate(e[1], e[2], e[3], e[4])

\* the first memo is shared while no marker is alive
ShareFirst ==
  /\ last.op = "idle"
  /\ \E a \in ShareFields :
       LET r == isDuplicateEvent(World, KeyOfShare(a), DefaultEnv)
       IN /\ cache' = r.w.cache
          /\ last' = [op |-> "first", a |-> a, b |-> a, dupA |-> r.res,
                      dupB |-> FALSE]
  /\ UNCHANGED <<posted, running, uploaded, props, pending, triggers, status, deleted,
                 markAge, chain>>

\* a second share arrives before the marker of the first expires
ShareSecond ==
  /\ last.op = "first"
  /\ \E b \in ShareFields :
       LET r == isDuplicateEvent(World, KeyOfShare(b), DefaultEnv)
       IN /\ cache' = r.w.cache
          /\ last' = [last EXCEPT !.op = "second", !.b = b, !.dupB = r.res]
  /\ UNCHANGED <<posted, running, uploaded, props, pending, triggers, status, deleted,
                 markAge, chain>>

KeyInit ==
  /\ uploaded = {"F1", "F2"}
  /\ props = [SLACK_BOT_TOKEN |-> TRUE, SLACK_USER_TOKEN |-> TRUE,
              SLACK_CHANNEL_NAME |-> TRUE]
  /\ cache = [k \in {KeyOfShare(e) : e \in ShareFields} |-> 0]
  /\ pending = <<>>
  /\ triggers = [d \in 0..RetryTicks |-> 0]
  /\ status = [f \in VoiceFiles |-> "processing"]
  /\ deleted = {}
  /\ markAge = [k \in EventKeys |-> -1]
  /\ chain = [starts |-> 0, checks |-> 0, waits |-> 0]
  /\ last = Idle("idle")
  /\ running = NotRunning
  /\ posted = NotPosted

KeyNext ==
  \/ ShareFirst
  \/ ShareSecond

SpecKey == KeyInit /\ [][KeyNext]_vars

(* ------------- processTranscription on its own (SpecText) -------------- *)
\* every file object processTranscription can be handed, over Texts
ApplyProcessTranscription ==
  /\ last.op = "idle"
  /\ \E st \in Statuses \cup {"unknown"} :
       \E env \in EnvsFor(Texts, st) :
         LET file == [id |-> "F1", mimetype |-> FileMeta("F1").mimetype,
                      status |-> st, preview |-> env.preview,
                      has_more |-> env.has_more]
             r == processTranscription(World, file, "C1", "t1", env)
         IN last' = [op |-> "processTranscription", data |-> NoData,
                     resp |-> "", calls |-> r.calls, view |-> <<file>>,
                     full |-> FullOf(r.calls, env), age |-> -1, rc |-> -1,
                     escaped |-> r.threw]
  /\ UNCHANGED <<posted, running, uploaded, props, cache, pending, triggers, status, deleted,
                 markAge, chain>>

TextInit ==
  /\ uploaded = {"F1"}
  /\ props = [SLACK_BOT_TOKEN |-> TRUE, SLACK_USER_TOKEN |-> TRUE,
              SLACK_CHANNEL_NAME |-> TRUE]
  /\ cache = [k \in EventKeys |-> 0]
  /\ pending = <<>>
  /\ triggers = [d \in 0..RetryTicks |-> 0]
  /\ status = [f \in VoiceFiles |-> "none"]
  /\ deleted = {}
  /\ markAge = [k \in EventKeys |-> -1]
  /\ chain = [starts |-> 0, checks |-> 0, waits |-> 0]
  /\ last = Idle("idle")
  /\ running = NotRunning
  /\ posted = NotPosted

TextNext ==
  \/ ApplyProcessTranscription
  \/ Return

SpecText == TextInit /\ [][TextNext]_vars

(* ------------------- isAudioFile on its own (SpecAudio) ----------------- *)
AUDIO_WAV == AUDIO_ \o <<"w", "a", "v">>
IMAGE_PNG == <<"i", "m", "a", "g", "e", "/", "p", "n", "g">>

\* the filetype of a file object; <<>>: the field is absent
FileTypes ==
  {<<>>, M4A, <<"m", "p", "3">>, MP4, <<"w", "a", "v">>,
   <<"m", "p", "e", "g">>, <<"o", "g", "g">>, <<"a", "a", "c">>,
   <<"M", "4", "A">>, <<"M", "p", "3">>, <<"O", "G", "g">>, TXT,
   <<"p", "n", "g">>, <<"m", "p">>, <<"m", "p", "3", "x">>,
   <<"x", "m", "p", "3">>}

\* the mimetype of a file object; <<>>: the field is absent
MimeTypes ==
  {<<>>, AUDIO_MP4, AUDIO_WAV, VIDEO_MP4, TEXT_PLAIN, IMAGE_PNG, OCTET_STREAM,
   <<"a", "p", "p", "l", "i", "c", "a", "t", "i", "o", "n", "/">> \o MP4,
   <<"A", "u", "d", "i", "o", "/", "w", "a", "v">>,
   <<"x", "-">> \o AUDIO_WAV,
   <<"a", "u", "d", "i", "o">>,
   MP4 \o <<"/", "x">>}

ApplyIsAudioFile ==
  /\ last.op = "idle"
  /\ \E filetype \in FileTypes, mimetype \in MimeTypes :
       last' = [op |-> "isAudioFile", filetype |-> filetype,
                mimetype |-> mimetype,
                result |-> isAudioFile(filetype, mimetype)]
  /\ UNCHANGED <<posted, running, uploaded, props, cache, pending, triggers, status, deleted,
                 markAge, chain>>

AudioNext ==
  \/ ApplyIsAudioFile
  \/ Return

SpecAudio == TextInit /\ [][AudioNext]_vars

(* ------- the hybrid pipeline of the single-file version (SpecHybrid) ---- *)
\* a text of n characters c
Rep(c, n) == [i \in 1..n |-> c]

\* " (tsuzuki ga arimasu)": the note appended to a preview that has more,
\* ten characters
MORE_NOTE == <<" ", "(", "tsuzu", "ki", "ga", "a", "ri", "ma", "su", ")">>

\* the sentence 'there was nothing to transcribe', twenty characters
NOTHING_TO_TRANSCRIBE == Rep("n", 20)

\* 'an error occurred while transcribing the audio: ', twenty-two characters,
\* followed by the error
TRANSCRIBE_ERROR == Rep("e", 22) \o <<"E", "r", "r", "o", "r">>

\* the answer of speech:recognize: results with their transcripts joined,
\* no results, or a failure of the token, the fetch or the parse
transcribeAudio(answer) ==
  IF answer.kind = "results" THEN answer.text
  ELSE IF answer.kind = "noResults" THEN NOTHING_TO_TRANSCRIBE
  ELSE TRANSCRIBE_ERROR

\* 1. the Slack transcript, with the note when the preview has more
slackTranscriptionOf(file) ==
  IF file.status = "complete" /\ file.preview # <<>>
  THEN IF file.has_more THEN file.preview \o MORE_NOTE ELSE file.preview
  ELSE <<>>

\* 2. const needsGoogleAPI = ...
needsGoogleAPI(slackTranscription, locale) ==
  \/ slackTranscription = <<>>
  \/ Len(slackTranscription) < 10
  \/ locale = "en-US"

selectTranscription_atLeast(slackTranscription, googleTranscription) ==
  IF /\ googleTranscription # <<>>
     /\ googleTranscription # NOTHING_TO_TRANSCRIBE
     /\ 5 * Len(googleTranscription) >= 6 * Len(slackTranscription)
    THEN googleTranscription
  ELSE IF slackTranscription # <<>> THEN slackTranscription
  ELSE IF googleTranscription # <<>> THEN googleTranscription
  ELSE NOTHING_TO_TRANSCRIBE

\* 3. the choice; length > slackLength * 1.2 on integers is
\* 5 * length > 6 * slackLength
selectTranscription(slackTranscription, googleTranscription) ==
  IF /\ googleTranscription # <<>>
     /\ googleTranscription # NOTHING_TO_TRANSCRIBE
     /\ 5 * Len(googleTranscription) > 6 * Len(slackTranscription)
    THEN googleTranscription
  ELSE IF slackTranscription # <<>> THEN slackTranscription
  ELSE IF googleTranscription # <<>> THEN googleTranscription
  ELSE NOTHING_TO_TRANSCRIBE

\* processVoiceMemo of the hybrid version up to postTranscription: the
\* variables it computes and the text it hands to postTranscription
hybridProcessVoiceMemo(file, downloadOk, answer) ==
  LET slackTranscription == slackTranscriptionOf(file)
      googleTranscription ==
        IF needsGoogleAPI(slackTranscription, file.locale) /\ downloadOk
        THEN transcribeAudio(answer) ELSE <<>>
  IN [slackTranscription |-> slackTranscription,
      googleTranscription |-> googleTranscription,
      finalTranscription |->
        selectTranscription(slackTranscription, googleTranscription)]

SlackLengths == {0, 1, 5, 9, 10, 15}

GoogleLengths == {0, 1, 6, 7, 10, 11, 12, 13, 14, 18, 19, 24, 25, 30, 31}

\* the transcription part of a files.info answer
HybridFiles ==
  [status : {"complete", "processing"},
   preview : {Rep("s", n) : n \in SlackLengths},
   has_more : BOOLEAN,
   locale : {"ja-JP", "en-US"}]

SpeechAnswers ==
  {[kind |-> "results", text |-> Rep("g", n)] : n \in GoogleLengths}
  \cup {[kind |-> "noResults", text |-> <<>>],
        [kind |-> "error", text |-> <<>>]}

ApplyHybridProcessVoiceMemo ==
  /\ last.op = "idle"
  /\ \E file \in HybridFiles, downloadOk \in BOOLEAN, answer \in SpeechAnswers :
       LET r == hybridProcessVoiceMemo(file, downloadOk, answer)
       IN last' = [op |-> "hybridProcessVoiceMemo", file |-> file,
                   downloadOk |-> downloadOk, answer |-> answer,
                   slackTranscription |-> r.slackTranscription,
                   googleTranscription |-> r.googleTranscription,
                   finalTranscription |-> r.finalTranscription]
  /\ UNCHANGED <<posted, running, uploaded, props, cache, pending, triggers, status,
                 deleted, markAge, chain>>

HybridNext ==
  \/ ApplyHybridProcessVoiceMemo
  \/ Return

SpecHybrid == TextInit /\ [][HybridNext]_vars

(* ------------------------------ properties ------------------------------ *)
Indices(api) == {i \in DOMAIN last.calls : last.calls[i].api = api}

Posts == Indices("chat.postMessage")

Deletes == Indices("files.delete") \cup Indices("chat.delete")

IsInfix(t, text) ==
  \E i \in 0..(Len(text) - Len(t)) : SubSeq(text, i + 1, i + Len(t)) = t

\* a delivery of a message/file_share event whose first file is audio
IsAudioFileShare(d) ==
  /\ d.parseOk /\ d.type = "event_callback" /\ d.event # <<>>
  /\ d.event[1].type = "message" /\ d.event[1].subtype = "file_share"
  /\ d.event[1].files # <<>>
  /\ MimeIsAudio(FileMeta(d.event[1].files[1]).mimetype)

\* the invocation looked the file up and found this transcription status
Found(st) == last.view # <<>> /\ last.view[1].status = st

\* the transcript Slack holds for the file the invocation looked up
Transcript ==
  IF last.full # <<>> THEN last.full[1] ELSE last.view[1].preview

\* C1: while the cache service answers, a first delivery (no live marker) of a message/file_share event for an
\* audio file whose lookup finds the transcription complete posts exactly one
\* message, to the event's channel, containing the transcript, and then
\* attempts to delete the file; a delivery of the same event while the marker
\* is live is answered 'Duplicate event' and invokes neither processVoiceMemo
\* nor any Slack request.
C1_EndToEndThenDuplicate ==
  (last.op = "doPost" /\ IsAudioFileShare(last.data)
   /\ Indices("CacheService.getScriptCache") = {}) =>
    LET ev == last.data.event[1]
        live == last.age \in 0..(TtlTicks - 1)
    IN /\ live =>
            /\ last.resp = "Duplicate event"
            /\ Indices("processVoiceMemo") = {}
            /\ Posts = {} /\ Deletes = {}
            /\ Indices("files.info") = {}
       /\ (~live /\ Found("complete")) =>
            /\ last.resp = "Processing voice memo"
            /\ Cardinality(Posts) = 1
            /\ \A i \in Posts :
                 /\ last.calls[i].channel = ev.channel
                 /\ Truthy(trim(Transcript)) =>
                      IsInfix(trim(Transcript), last.calls[i].text)
            /\ Cardinality(Deletes) = 1
            /\ \A j \in Deletes :
                 /\ last.calls[j].file = ev.files[1]
                 /\ \A i \in Posts : i < j

C1_Witness ==
  /\ last.op = "doPost" /\ IsAudioFileShare(last.data)
  /\ last.age = 0
  /\ last.resp = "Duplicate event"
  /\ "F1" \in deleted

\* C2: a duplicate check of a key that was marked less than the TTL ago
\* returns true; a check of a key never marked, or marked at least the TTL
\* ago, returns false and stores a marker with the full TTL.
C2_DedupIdempotence ==
  \A i \in Indices("isDuplicateEvent") :
    LET k == last.calls[i].text
    IN /\ last.age \in 0..(TtlTicks - 1) => last.calls[i].ok
       /\ (last.age = -1 \/ last.age >= TtlTicks) =>
            ~last.calls[i].ok /\ cache[k] = TtlTicks /\ markAge[k] = 0

C2_Witness ==
  \E i \in Indices("isDuplicateEvent") :
    last.age = TtlTicks - 1 /\ last.calls[i].ok

\* C3: the response to a payload of type url_verification is its challenge
\* value, whatever event object it carries.
C3_HandshakePassthrough ==
  (last.op = "doPost" /\ last.data.parseOk
   /\ last.data.type = "url_verification") =>
    last.resp = last.data.challenge /\ last.calls = <<>>

C3_Witness ==
  /\ last.op = "doPost" /\ last.data.type = "url_verification"
  /\ last.data.event # <<>>
  /\ last.data.event[1].subtype = "file_share"
  /\ last.resp = "abc123"

\* C4: an invocation that finds the transcription complete requests
\* chat.postMessage with a text that is not empty or blank before it requests
\* any delete; a failed delete is the last request of the invocation (nothing
\* retracts the post) and no exception leaves the handler.
C4_PostThenCleanup ==
  Found("complete") =>
    /\ Posts # {}
    /\ \A i \in Posts : Truthy(trim(last.calls[i].text))
    /\ \A j \in Deletes : \E i \in Posts : i < j
    /\ Indices("chat.delete") = {}
    /\ \A j \in Deletes : ~last.calls[j].ok => j = Len(last.calls)
    /\ ~last.escaped

C4_Witness ==
  /\ Found("complete")
  /\ \E j \in Deletes : ~last.calls[j].ok /\ \E i \in Posts : i < j

\* C5 (as claimed): the text posted is never empty or blank, and whenever
\* the transcript of a completed transcription is empty or blank the text
\* posted is the one fixed sentinel, the initial value of transcription.
C5_OneSentinel ==
  \A i \in Posts :
    /\ Truthy(trim(last.calls[i].text))
    /\ (Found("complete") /\ ~Truthy(trim(Transcript))) =>
         last.calls[i].text = DEFAULT_TRANSCRIPTION

\* C6 (as claimed): complete, has_more, full text not obtained: the text
\* posted is the preview content followed by the marker.
C6_PreviewPlusMarker ==
  (Found("complete") /\ last.view[1].has_more
   /\ Indices("files.info?get_transcript") # {} /\ last.full = <<>>) =>
    /\ Posts # {}
    /\ \A i \in Posts :
         /\ last.calls[i].text = last.view[1].preview \o MORE_MARKER
         /\ Truthy(last.calls[i].text)

\* C6 (amended): complete, has_more, full text not obtained: the text posted
\* is the preview content followed by the marker, less its leading blanks,
\* and it still ends with the marker and is not empty.
C6_TrimmedPreviewPlusMarker ==
  (Found("complete") /\ last.view[1].has_more
   /\ Indices("files.info?get_transcript") # {} /\ last.full = <<>>) =>
    /\ Posts # {}
    /\ \A i \in Posts :
         LET text == last.calls[i].text
         IN /\ text = trimStart(last.view[1].preview \o MORE_MARKER)
            /\ Len(text) >= 1 /\ text[Len(text)] = MORE_MARKER[Len(MORE_MARKER)]

C6_Witness ==
  /\ Found("complete") /\ last.view[1].has_more
  /\ Indices("files.info?get_transcript") # {} /\ last.full = <<>>
  /\ Len(last.view[1].preview) >= 2
  /\ last.view[1].preview[1] = " " /\ last.view[1].preview[2] = "a"
  /\ \E i \in Posts : last.calls[i].text = <<"a">> \o MORE_MARKER

\* C7: a delivery whose lookup finds the transcription processing creates
\* exactly one recheck trigger, due after the retry delay, stores the pending
\* record of the file with retryCount 0 and maxRetries 6, and requests neither
\* a post nor a delete.
C7_FirstSightingSchedules ==
  (last.op = "doPost" /\ Found("processing")) =>
    LET ev == last.data.event[1]
    IN /\ Cardinality(Indices("ScriptApp.newTrigger")) = 1
       /\ triggers[RetryTicks] >= 1
       /\ pending = <<PendingTranscription(ev.files[1], ev.channel, ev.ts,
                                           0, 6)>>
       /\ Posts = {} /\ Deletes = {}
       /\ last.resp = "Processing voice memo"
       /\ ~last.escaped

C7_Witness ==
  /\ last.op = "doPost" /\ Found("processing")
  /\ TriggerCount(triggers) = 1
  /\ pending # <<>> /\ pending[1].retryCount = 0

\* C8: a recheck that reads retryCount = maxRetries and finds the
\* transcription not complete posts the message for the status it found,
\* creates no trigger, clears the record and the triggers, and raises
\* nothing; in a chain started once it is the 7th recheck.
C8_ExhaustionUsesCurrentState ==
  (last.op = "retryTranscriptionCheck" /\ last.rc = MAX_RETRIES
   /\ last.view # <<>> /\ ~Found("complete")) =>
    /\ Cardinality(Posts) = 1
    /\ \A i \in Posts :
         last.calls[i].text =
           CASE Found("processing") -> PROCESSING_MESSAGE
             [] Found("failed") -> FAILED_MESSAGE
             [] OTHER -> NO_TRANSCRIPTION_MESSAGE
    /\ Deletes = {}
    /\ Indices("ScriptApp.newTrigger") = {}
    /\ pending = <<>> /\ TriggerCount(triggers) = 0
    /\ ~last.escaped
    /\ chain.starts = 1 => chain.checks = MAX_RETRIES + 1

C8_Witness ==
  /\ last.op = "retryTranscriptionCheck" /\ last.rc = MAX_RETRIES
  /\ Found("processing") /\ chain.starts = 1 /\ chain.checks = 7
  /\ \E i \in Posts : last.calls[i].text = PROCESSING_MESSAGE

\* C9: whenever a recheck trigger is outstanding and the pending record is
\* stored, the record has 0 <= retryCount <= maxRetries.
C9_RetryCountWithinBudget ==
  (TriggerCount(triggers) > 0 /\ pending # <<>>) =>
    /\ 0 <= pending[1].retryCount
    /\ pending[1].retryCount <= pending[1].maxRetries

C9_Witness ==
  /\ TriggerCount(triggers) > 0 /\ pending # <<>>
  /\ pending[1].retryCount = pending[1].maxRetries

\* C10 (as claimed): a chain started once makes at most maxRetries rechecks
\* and waits at most maxRetries delays.
C10_AtMostMaxRetriesAttempts ==
  chain.starts = 1 =>
    chain.checks <= MAX_RETRIES /\ chain.waits <= MAX_RETRIES

\* two strings that differ at most in the case of their letters
SameIgnoringCase(a, b) ==
  /\ Len(a) = Len(b)
  /\ \A i \in DOMAIN a :
       \/ a[i] = b[i]
       \/ \E j \in DOMAIN UpperCase :
            {a[i], b[i]} = {UpperCase[j], LowerCase[j]}

AudioFileTypeNames ==
  {M4A, <<"m", "p", "3">>, MP4, <<"w", "a", "v">>, <<"m", "p", "e", "g">>,
   <<"o", "g", "g">>, <<"a", "a", "c">>}

\* C11: isAudioFile answers true for the mimetypes audio/mp4, audio/wav and
\* video/mp4, false for text/plain and image/png when the filetype is not an
\* audio one, and in general true exactly when the filetype is one of m4a,
\* mp3, mp4, wav, mpeg, ogg, aac in any case or the mimetype starts with
\* audio/ or video/ or ends with mp4.
C11_AudioTypeFilter ==
  last.op = "isAudioFile" =>
    LET named == \E n \in AudioFileTypeNames :
                   SameIgnoringCase(last.filetype, n)
        m == last.mimetype
    IN /\ m \in {AUDIO_MP4, AUDIO_WAV, VIDEO_MP4} => last.result
       /\ (m \in {TEXT_PLAIN, IMAGE_PNG} /\ ~named) => ~last.result
       /\ last.result <=>
            \/ named
            \/ Len(m) >= 6 /\ SubSeq(m, 1, 6) \in {AUDIO_, VIDEO_}
            \/ Len(m) >= 3 /\ SubSeq(m, Len(m) - 2, Len(m)) = MP4

C11_Witness ==
  /\ last.op = "isAudioFile" /\ last.result
  /\ last.filetype = <<"M", "p", "3">> /\ last.mimetype = TEXT_PLAIN

\* a parsed delivery that carries an event
HasEvent(d) == d.parseOk /\ d.event # <<>>

IsFileShare(d) ==
  HasEvent(d) /\ d.event[1].type = "message"
  /\ d.event[1].subtype = "file_share"

\* C12: a delivery whose event is not message/file_share invokes neither
\* processVoiceMemo nor the duplicate check, and leaves the cache, the pending
\* record and the triggers as they were.
C12_IrrelevantEventFrame ==
  [][(last'.op = "doPost" /\ HasEvent(last'.data)
      /\ ~IsFileShare(last'.data)) =>
       /\ last'.calls = <<>>
       /\ cache' = cache
       /\ pending' = pending /\ triggers' = triggers]_vars

C12_Witness ==
  /\ last.op = "doPost" /\ HasEvent(last.data)
  /\ last.data.event[1].subtype = "channel_join"
  /\ last.resp = "Unsupported event type"
  /\ \E k \in EventKeys : cache[k] > 0 /\ cache[k] < TtlTicks

\* the message/file_share deliveries about the file of a file_shared notice
MessagesFor(fileId) ==
  {m \in Payloads : IsFileShare(m) /\ m.type = "event_callback"
                     /\ m.event[1].files # <<>>
                     /\ m.event[1].files[1] = fileId}

\* C13: a file_shared notice is answered with a text, makes no request and
\* creates no trigger, and after it a message/file_share delivery for the
\* same file is answered 'Duplicate event' only if it would have been before.
C13_NoticeNeverSuppresses ==
  [][(last'.op = "doPost" /\ HasEvent(last'.data)
      /\ last'.data.type = "event_callback"
      /\ last'.data.event[1].type = "file_shared") =>
       /\ last'.resp = "File shared event received"
       /\ last'.calls = <<>>
       /\ triggers' = triggers /\ pending' = pending /\ deleted' = deleted
       /\ \A m \in MessagesFor(last'.data.event[1].file_id) :
            doPost(World', m, DefaultEnv).resp = "Duplicate event" =>
              doPost(World, m, DefaultEnv).resp = "Duplicate event"]_vars

C13_Witness ==
  /\ last.op = "doPost" /\ HasEvent(last.data)
  /\ last.data.event[1].type = "file_shared"
  /\ last.resp = "File shared event received"
  /\ getSlackConfig(props) /\ status["F1"] = "complete" /\ "F1" \notin deleted
  /\ \A m \in MessagesFor(last.data.event[1].file_id) :
       doPost(World, m, DefaultEnv).resp = "Processing voice memo"

\* C14: a url_verification delivery is answered before anything else is
\* done: the invocation makes no duplicate check (no cache read, no cache
\* write), no other call, and leaves the cache and the rest of the stored
\* state as they were.
C14_HandshakeLeavesCacheAlone ==
  [][(last'.op = "doPost" /\ last'.data.parseOk
      /\ last'.data.type = "url_verification") =>
       /\ Cardinality({i \in DOMAIN last'.calls :
                         last'.calls[i].api = "isDuplicateEvent"}) = 0
       /\ last'.calls = <<>>
       /\ cache' = cache /\ markAge' = markAge
       /\ pending' = pending /\ triggers' = triggers
       /\ deleted' = deleted]_vars

C14_Witness ==
  /\ last.op = "doPost" /\ last.data.type = "url_verification"
  /\ IsFileShare(last.data)
  /\ getSlackConfig(props) /\ status["F1"] = "complete" /\ "F1" \notin deleted
  /\ cache[createEventKey(last.data)] = 0
  /\ last.calls = <<>>

\* C15: every delivery is answered with a text and nothing is thrown to
\* the caller: a body that does not parse and a failing cache service are
\* answered 'Error processing event'; missing credentials and failing Slack
\* requests inside the pipeline still end in the answer 'Processing voice
\* memo'.
C15_DoPostNeverRaises ==
  last.op = "doPost" =>
    /\ ~last.escaped
    /\ last.resp # ""
    /\ (~last.data.parseOk \/ Indices("CacheService.getScriptCache") # {}) =>
         last.resp = "Error processing event"
    /\ Indices("processVoiceMemo") # {} => last.resp = "Processing voice memo"

C15_Witness ==
  /\ last.op = "doPost" /\ IsFileShare(last.data)
  /\ Indices("CacheService.getScriptCache") # {}
  /\ last.resp = "Error processing event"

C17_FailedNoRetry ==
  Found("failed") =>
    /\ Cardinality(Posts) = 1
    /\ \A i \in Posts : last.calls[i].text = FAILED_MESSAGE
    /\ Indices("ScriptApp.newTrigger") = {}
    /\ \A i \in DOMAIN pending : pending[i].fileId # last.view[1].id

C20_AtMostOneOutstanding ==
  Len(pending) <= 1 /\ triggers[RetryTicks] <= 1

\* C19 (as claimed): while a record is pending for one file, the delivery of
\* a message/file_share event about another file leaves that record as it is
\* and cancels no recheck trigger; and a recheck always looks up the file
\* whose delivery started the oldest chain still pending.
C19_FilesIndependent ==
  [][(pending # <<>> /\ last'.op = "doPost" /\ IsAudioFileShare(last'.data)
      /\ last'.data.event[1].files[1] # pending[1].fileId) =>
       /\ pending' # <<>> /\ pending'[1].fileId = pending[1].fileId
       /\ pending'[1].retryCount = pending[1].retryCount
       /\ TriggerCount(triggers') >= TriggerCount(triggers)]_vars

\* C21 (as claimed): with the bot token and the user token stored the
\* configuration loads, whether or not a channel name is stored: a delivery
\* that reaches processVoiceMemo makes the files.info lookup.
C21_ChannelFilterOptional ==
  (props.SLACK_BOT_TOKEN /\ props.SLACK_USER_TOKEN) =>
    /\ getSlackConfig(props)
    /\ (last.op = "doPost" /\ Indices("processVoiceMemo") # {}) =>
         Indices("files.info") # {}

\* C22 (as claimed): with a channel name stored, a delivery from a channel
\* of another name posts nothing, deletes nothing and schedules no recheck.
C22_OtherChannelAborted ==
  (last.op = "doPost" /\ HasEvent(last.data) /\ props.SLACK_CHANNEL_NAME
   /\ ChannelName(last.data.event[1].channel) # MONITORED_CHANNEL_NAME) =>
    /\ Posts = {} /\ Deletes = {}
    /\ Indices("ScriptApp.newTrigger") = {}

\* C23 (as claimed): a delivery of a message/file_share event for an audio
\* file whose duplicate check fails on the cache service is treated as not a
\* duplicate: processVoiceMemo is invoked and the delivery is answered
\* 'Processing voice memo'.
C23_DedupFailsOpen ==
  (last.op = "doPost" /\ IsAudioFileShare(last.data)
   /\ Indices("CacheService.getScriptCache") # {}) =>
    /\ Indices("processVoiceMemo") # {}
    /\ last.resp = "Processing voice memo"

\* C25 (as claimed): every files.delete request of an invocation comes after
\* a chat.postMessage request of that invocation that succeeded.
C25_DeleteOnlyAfterPosted ==
  \A j \in Deletes :
    \E i \in Posts : i < j /\ last.calls[i].ok

\* a request to the Slack Web API in the trace
SlackRequests ==
  {i \in DOMAIN last.calls :
     last.calls[i].api \in {"files.info", "files.info?get_transcript",
                            "conversations.info", "chat.postMessage",
                            "files.delete", "chat.delete"}}

\* C27: an invocation that runs while one of the three settings is missing
\* makes no request to Slack, creates no trigger, stores no record, and
\* nothing is thrown out of it.
C27_NoCredentialsNoRequest ==
  (last.op \in {"doPost", "retryTranscriptionCheck"}
   /\ ~(props.SLACK_BOT_TOKEN /\ props.SLACK_USER_TOKEN
        /\ props.SLACK_CHANNEL_NAME)) =>
    /\ SlackRequests = {}
    /\ Indices("ScriptApp.newTrigger") = {}
    /\ pending = <<>> /\ TriggerCount(triggers) = 0
    /\ ~last.escaped

C27_Witness ==
  /\ last.op = "doPost" /\ Indices("processVoiceMemo") # {}
  /\ props.SLACK_BOT_TOKEN /\ props.SLACK_USER_TOKEN
  /\ ~props.SLACK_CHANNEL_NAME
  /\ last.resp = "Processing voice memo" /\ SlackRequests = {}

\* C29 (as claimed): every lookup and every post is made with the bot token,
\* every delete with the user token.
C29_PostWithBotToken ==
  \A i \in SlackRequests :
    last.calls[i].token =
      IF last.calls[i].api \in {"files.delete", "chat.delete"}
      THEN "user" ELSE "bot"

\* C29 (amended): every lookup is made with the bot token; every post and
\* every delete is made with the user token.
C29_PostAndDeleteWithUserToken ==
  \A i \in SlackRequests :
    last.calls[i].token =
      IF last.calls[i].api \in {"files.delete", "chat.delete",
                                "chat.postMessage"}
      THEN "user" ELSE "bot"

C29_Witness ==
  /\ \E i \in Indices("files.info") : last.calls[i].token = "bot"
  /\ \E i \in Posts : last.calls[i].token = "user"
  /\ \E i \in Deletes : last.calls[i].token = "user"

\* C30 (as claimed): when the preview has more and the text posted is not the
\* full content, the text posted ends with the truncation marker.
C30_NoSilentTruncation ==
  (Found("complete") /\ last.view[1].has_more
   /\ Truthy(last.view[1].preview)) =>
    \A i \in Posts :
      LET text == last.calls[i].text
          isFull == \E k \in Indices("files.info?get_transcript") :
                      /\ Truthy(last.calls[k].text)
                      /\ text = formattedText(last.calls[k].text)
      IN isFull \/ endsWith(text, trim(MORE_MARKER))

\* the answers in which one request to Slack fails
FailingEnvs ==
  {[DefaultEnv EXCEPT !.infoOk = FALSE], [DefaultEnv EXCEPT !.fullOk = FALSE],
   [DefaultEnv EXCEPT !.postOk = FALSE], [DefaultEnv EXCEPT !.deleteOk = FALSE]}

\* the return value of a wrapper that returns a boolean: the ok of its request
Returned(w) == w.calls # <<>> /\ w.calls[Len(w.calls)].ok

\* C28: with the settings stored, each Slack wrapper whose request fails
\* returns null or false and throws nothing; and no invocation in which a
\* request failed lets an exception out.
C28_WrappersNeverThrow ==
  /\ (\E i \in SlackRequests : ~last.calls[i].ok) => ~last.escaped
  /\ getSlackConfig(props) =>
       \A f \in uploaded : \A env \in FailingEnvs :
         /\ ~getFileInfo(World, f, env).w.threw
         /\ ~env.infoOk => getFileInfo(World, f, env).res = <<>>
         /\ ~getFullTranscription(World, f, env).w.threw
         /\ ~env.fullOk => getFullTranscription(World, f, env).res = <<>>
         /\ ~getChannelInfo(World, "C1", env.infoOk).w.threw
         /\ ~env.infoOk => getChannelInfo(World, "C1", env.infoOk).res = <<>>
         /\ ~postTranscription(World, "C1", <<"a">>, env).threw
         /\ ~env.postOk => ~Returned(postTranscription(World, "C1", <<"a">>, env))
         /\ ~deleteFile(World, f, env).threw
         /\ ~env.deleteOk => ~Returned(deleteFile(World, f, env))

C28_Witness ==
  /\ getSlackConfig(props) /\ ~last.escaped
  /\ \E i \in Posts : ~last.calls[i].ok /\ \E j \in Deletes : i < j

\* every files.info lookup of the invocation was answered with the file
LookupsSucceed == \A i \in Indices("files.info") : last.calls[i].ok

\* a delivery was accepted: it reached processVoiceMemo and found the file
Accepted ==
  /\ last.op = "doPost" /\ IsAudioFileShare(last.data)
  /\ last.resp = "Processing voice memo" /\ last.view # <<>>

\* an invocation requests a post to the channel of the event: the transcript
\* if it found the transcription complete, else the message of the status
Responded ==
  /\ Posts # {}
  /\ \A i \in Posts :
       /\ last.calls[i].channel = "C1"
       /\ ~Found("complete") => last.calls[i].text \in StatusMessages

\* a message of the invocation reached the channel: Slack accepted the post
Delivered ==
  \E i \in Posts : last.calls[i].ok /\ last.calls[i].channel = "C1"

\* C24: if every files.info lookup succeeds, then after a delivery is accepted
\* an invocation follows (the delivery itself or a recheck) whose message is
\* posted to the channel.
C24_AlwaysAResponse ==
  []LookupsSucceed => (Accepted ~> Delivered)

\* what the code does guarantee: under the same assumption a post is
\* requested, the transcript or the message of the status
C24_ResponseRequested ==
  []LookupsSucceed => (Accepted ~> Responded)

C24_Witness ==
  /\ last.op = "retryTranscriptionCheck" /\ last.rc >= 1
  /\ Found("complete") /\ Responded

\* the deliveries that were told 'not a duplicate'
PassedCheck == {d \in Deliveries : running[d].pc \in {"wrote", "done"}
                                    /\ running[d].resp # "Duplicate event"}

\* C26: within the lifetime of a marker, a delivery reads the marker exactly
\* when another delivery had put it before the read; so two deliveries of one
\* event key both pass the check only when both read the cache before either
\* put the marker, and a delivery that read after a put is answered
\* 'Duplicate event' and does not reach the pipeline.
C26_CheckIsNotAtomic ==
  /\ \A d \in Deliveries :
       running[d].pc # "start" =>
         (running[d].cachedEvent <=> running[d].sawMarker)
  /\ PassedCheck = Deliveries => \A d \in Deliveries : ~running[d].sawMarker
  /\ \A d \in Deliveries :
       running[d].resp = "Processing voice memo" => ~running[d].cachedEvent

\* both overlapping deliveries passed the check and ran the pipeline: the
\* same memo has two recheck triggers
C26_Witness ==
  /\ \A d \in Deliveries : running[d].resp = "Processing voice memo"
  /\ last.op = "doPost" /\ Indices("processVoiceMemo") # {}
  /\ triggers[RetryTicks] = 2

\* no field of the event holds a '_'
NoUnderscore(e) == \A i \in 1..4 : \A j \in DOMAIN e[i] : e[i][j] # "_"

\* C31: two message/file_share events whose fields hold no '_' and that
\* differ in first file id, channel, user or ts get different keys, and the
\* second, shared while the marker of the first is alive, is not a duplicate;
\* the same event again is.
C31_KeySeparatesEvents ==
  last.op = "second" =>
    /\ ~last.dupA
    /\ last.a = last.b => last.dupB
    /\ (NoUnderscore(last.a) /\ NoUnderscore(last.b) /\ last.a # last.b) =>
         /\ KeyOfShare(last.a) # KeyOfShare(last.b)
         /\ ~last.dupB

\* a second memo of the same user in the same channel at another time, while
\* the first marker is alive, passed the check
C31_Witness ==
  /\ last.op = "second" /\ ~last.dupB
  /\ NoUnderscore(last.a) /\ NoUnderscore(last.b)
  /\ last.a[1] # last.b[1] /\ last.a[4] # last.b[4]
  /\ last.a[2] = last.b[2] /\ last.a[3] = last.b[3] /\ last.a[2] # <<>>
  /\ cache[KeyOfShare(last.a)] > 0

\* with a '_' in a field two different events can share a key
C31_UnderscoreCollision ==
  last.op = "second" /\ last.a # last.b => KeyOfShare(last.a) # KeyOfShare(last.b)

\* C32: after clearEventCache has run, the duplicate check finds no marker
\* for any event key, and no recheck trigger is outstanding.
C32_ClearRemovesEverything ==
  last.op = "clearEventCache" =>
    /\ \A k \in EventKeys : ~cacheGet(cache, k)
    /\ TriggerCount(triggers) = 0

\* the two halves of C32, each on its own
C32_ClearRemovesMarkers ==
  last.op = "clearEventCache" => \A k \in EventKeys : ~cacheGet(cache, k)

C32_ClearCancelsRechecks ==
  last.op = "clearEventCache" => TriggerCount(triggers) = 0

\* the Slack transcript of the invocation: the preview of a complete
\* transcription, as it would be posted
NativeTranscript ==
  IF last.file.status = "complete" /\ last.file.preview # <<>>
  THEN IF last.file.has_more THEN last.file.preview \o MORE_NOTE
       ELSE last.file.preview
  ELSE <<>>

\* the text Speech-to-Text was asked for and returned, other than its
\* 'nothing to transcribe' answer; <<>> when it was not asked or gave none
ExternalTranscript ==
  IF last.googleTranscription = NOTHING_TO_TRANSCRIBE THEN <<>>
  ELSE last.googleTranscription

C34_FailureKeepsNative ==
  (/\ last.op = "hybridProcessVoiceMemo"
   /\ NativeTranscript # <<>>
   /\ last.answer.kind = "error") =>
     last.finalTranscription = NativeTranscript

\* a pending record that no outstanding trigger will process
Orphaned == pending # <<>> /\ TriggerCount(triggers) = 0

\* C35: over deliveries, redeliveries, rechecks and failed deletes, a
\* transcript is posted at most once for a file.
C35_AtMostOneTranscript ==
  \A f \in VoiceFiles : posted[f] <= 1

\* what does hold: once the file is deleted no transcript is posted for it
C35_NoPostAfterDelete ==
  [][\A f \in VoiceFiles : f \in deleted => posted'[f] = posted[f]]_vars

\* C36: between invocations a pending record has an outstanding trigger.
C36_NoOrphanedRecord ==
  (\A d \in Deliveries : running[d].pc \in {"start", "done"}) => ~Orphaned

\* the interleaving C36 names: the cleanup of one invocation around the
\* scheduling of another, no trigger firing in between
C36_CleanupAroundSchedule ==
  (/\ \A d \in Deliveries : running[d].pc = "done"
   /\ chain.checks = 0) => ~Orphaned

\* what does hold: invocations that run one at a time leave no orphan
C36_NoOrphanWithoutOverlap ==
  running = NotRunning => ~Orphaned

\* a delivery whose pipeline ran and gave up: nothing posted, nothing
\* scheduled
Aborted ==
  /\ last.op = "doPost" /\ IsAudioFileShare(last.data)
  /\ Indices("processVoiceMemo") # {}
  /\ Posts = {} /\ Indices("ScriptApp.newTrigger") = {}

\* C37: a delivery whose pipeline aborts without posting leaves the marker
\* of its event in place for the full lifetime; and while the credentials are
\* missing (every pipeline run so far aborted) a redelivery within the
\* lifetime is answered 'Duplicate event' and runs no pipeline.
C37_MarkerSurvivesFailure ==
  /\ Aborted =>
       cache[createEventKey(last.data)] = DEDUP_TTL_SECONDS \div TickSeconds
  /\ (/\ last.op = "doPost" /\ IsAudioFileShare(last.data)
      /\ Indices("CacheService.getScriptCache") = {}
      /\ ~getSlackConfig(props)
      /\ last.age \in 0..(TtlTicks - 1)) =>
       /\ last.resp = "Duplicate event"
       /\ Indices("processVoiceMemo") = {}
       /\ SlackRequests = {}

\* a redelivery, one tick or more after the delivery that aborted for want
\* of credentials, is turned away
C37_Witness ==
  /\ last.op = "doPost" /\ IsAudioFileShare(last.data)
  /\ ~getSlackConfig(props)
  /\ last.age \in 1..(TtlTicks - 1)
  /\ last.resp = "Duplicate event"

\* the other cause: the lookup failed, and the marker is there
C37_WitnessLookupFailed ==
  /\ Aborted /\ getSlackConfig(props)
  /\ \E i \in Indices("files.info") : ~last.calls[i].ok
  /\ cacheGet(cache, createEventKey(last.data))

\* the event with only its first attachment
FirstOnly(data) ==
  [data EXCEPT !.event[1].files = <<data.event[1].files[1]>>]

\* C38: of a message with several attachments only files[0] is used: the
\* key is that of the event with files[0] alone, a first attachment that is
\* not audio ends the delivery, every lookup, post-processing call and delete
\* names files[0], the pending record names files[0], and the second
\* attachment is never looked up, recorded or deleted.
C38_OnlyFirstAttachment ==
  /\ \A i \in DOMAIN last.calls : last.calls[i].file # "F2"
  /\ pending # <<>> => pending[1].fileId # "F2"
  /\ "F2" \notin deleted
  /\ last.op = "doPost" =>
       LET files == last.data.event[1].files
       IN /\ \A i \in DOMAIN last.calls :
               last.calls[i].file \in {"", files[1]}
          /\ \A i \in Indices("isDuplicateEvent") :
               last.calls[i].text = createEventKey(FirstOnly(last.data))
          /\ ~isAudioFile(FileMeta(files[1]).filetype,
                          FileMeta(files[1]).mimetype) =>
               last.resp = "Not an audio file" /\ last.calls = <<>>
          /\ Indices("ScriptApp.newTrigger") # {} =>
               pending # <<>> /\ pending[1].fileId = files[1]
          /\ \A j \in Deletes : last.calls[j].file = files[1]

\* a message with two voice memos: the first is transcribed and deleted, the
\* second, complete as well, is left alone
C38_Witness ==
  /\ last.op = "doPost" /\ last.data.event[1].files = <<"F1", "F2">>
  /\ Found("complete") /\ Posts # {} /\ "F1" \in deleted
  /\ status["F2"] = "complete" /\ "F2" \notin deleted

====
